---------------------------- MODULE Spec2Model ----------------------------
(***************************************************************************)
(* A model of the allocation and projection engine of ProductionCash:      *)
(* PortfolioCalculator (src/portfolio_calculator.py) driven by a           *)
(* DataFetcher (src/data_fetcher.py).                                      *)
(*                                                                         *)
(* Four specifications share the variables:                                *)
(*   Spec      generate_scenarios and the three calculate_portfolio builds *)
(*   SpecDCA   calculate_dca_projection                                    *)
(*   SpecFill  analyze_fill_dividend                                       *)
(*   SpecDiv   DataFetcher.get_dividend_info                               *)
(*                                                                         *)
(* Python floats are modelled by exact rationals [n, d] (money, rates) and *)
(* by exact big integers over a power of 1200 (the DCA values): rounding   *)
(* error of the float arithmetic is outside the model.                     *)
(***************************************************************************)
EXTENDS Integers, Sequences, FiniteSets, TLC

(***************************************************************************)
(* Exact rational arithmetic.                                              *)
(***************************************************************************)
Abs(x) == IF x < 0 THEN -x ELSE x

RECURSIVE GCD(_, _)
GCD(a, b) == IF b = 0 THEN a ELSE GCD(b, a % b)

\* the rational n/d in lowest terms with a positive denominator (d # 0)
Rat(n, d) ==
    LET g == GCD(Abs(n), Abs(d))
        s == IF d < 0 THEN -1 ELSE 1
    IN  [n |-> (s * n) \div g, d |-> (s * d) \div g]

RInt(i) == [n |-> i, d |-> 1]
RZero == RInt(0)
RAdd(a, b) == Rat(a.n * b.d + b.n * a.d, a.d * b.d)
RSub(a, b) == Rat(a.n * b.d - b.n * a.d, a.d * b.d)
RMul(a, b) == Rat(a.n * b.n, a.d * b.d)
RDiv(a, b) == Rat(a.n * b.d, a.d * b.n)
RLess(a, b) == a.n * b.d < b.n * a.d
RLeq(a, b) == a.n * b.d <= b.n * a.d
RPos(a) == a.n > 0
\* floor of a rational (a.d > 0)
RFloor(a) == a.n \div a.d
\* Python's int(x) on a float: truncation toward zero
PyInt(a) == IF a.n >= 0 THEN a.n \div a.d ELSE -((-a.n) \div a.d)

RECURSIVE RSumOver(_, _)
\* the sum of f[x] over the finite set S
RSumOver(S, f) ==
    IF S = {} THEN RZero
    ELSE LET x == CHOOSE y \in S : TRUE
         IN  RAdd(f[x], RSumOver(S \ {x}, f))


(***************************************************************************)
(* Exact integers of any size: a sign and a magnitude, the magnitude a     *)
(* sequence of digits in base BigBase, least significant first, without    *)
(* leading zeros (zero is the empty sequence).                             *)
(***************************************************************************)
BigBase == 100 * 100

Rest(a) == IF a = <<>> THEN <<>> ELSE Tail(a)
Digit0(a) == IF a = <<>> THEN 0 ELSE Head(a)

RECURSIVE BNorm(_)
BNorm(a) ==
    IF a = <<>> THEN <<>>
    ELSE IF a[Len(a)] = 0 THEN BNorm(SubSeq(a, 1, Len(a) - 1))
    ELSE a

RECURSIVE BAddC(_, _, _)
BAddC(a, b, c) ==
    IF a = <<>> /\ b = <<>>
    THEN IF c = 0 THEN <<>> ELSE <<c>>
    ELSE LET x == Digit0(a) + Digit0(b) + c
         IN  <<x % BigBase>> \o BAddC(Rest(a), Rest(b), x \div BigBase)

BAdd(a, b) == BAddC(a, b, 0)

RECURSIVE BSubC(_, _, _)
\* a - b - c for a >= b + c
BSubC(a, b, c) ==
    IF a = <<>> THEN <<>>
    ELSE LET x == Digit0(a) - Digit0(b) - c
         IN  <<x % BigBase>> \o BSubC(Rest(a), Rest(b), IF x < 0 THEN 1 ELSE 0)

BSub(a, b) == BNorm(BSubC(a, b, 0))

RECURSIVE BMulC(_, _, _)
\* a * k + c for a small natural k
BMulC(a, k, c) ==
    IF a = <<>>
    THEN IF c = 0 THEN <<>> ELSE <<c % BigBase>> \o BMulC(<<>>, k, c \div BigBase)
    ELSE LET x == Head(a) * k + c
         IN  <<x % BigBase>> \o BMulC(Tail(a), k, x \div BigBase)

BMul(a, k) == BNorm(BMulC(a, k, 0))

RECURSIVE BLessFrom(_, _, _)
\* a < b for magnitudes of equal length, compared from digit i down
BLessFrom(a, b, i) ==
    IF i = 0 THEN FALSE
    ELSE IF a[i] # b[i] THEN a[i] < b[i]
    ELSE BLessFrom(a, b, i - 1)

BLess(a, b) ==
    IF Len(a) # Len(b) THEN Len(a) < Len(b) ELSE BLessFrom(a, b, Len(a))

Z(neg, mag) == [neg |-> neg /\ mag # <<>>, mag |-> mag]
ZInt(i) == Z(i < 0, BMulC(<<>>, 0, Abs(i)))
ZNeg(x) == Z(~x.neg, x.mag)
ZAdd(x, y) ==
    IF x.neg = y.neg THEN Z(x.neg, BAdd(x.mag, y.mag))
    ELSE IF BLess(x.mag, y.mag) THEN Z(y.neg, BSub(y.mag, x.mag))
    ELSE Z(x.neg, BSub(x.mag, y.mag))
ZSub(x, y) == ZAdd(x, ZNeg(y))
\* x * k for a small integer k
ZMul(x, k) == Z(x.neg # (k < 0), BMul(x.mag, Abs(k)))
ZLess(x, y) ==
    IF x.neg # y.neg THEN x.neg
    ELSE IF x.neg THEN BLess(y.mag, x.mag)
    ELSE BLess(x.mag, y.mag)

RECURSIVE ZTimesPow(_, _, _)
\* x * k^e
ZTimesPow(x, k, e) == IF e = 0 THEN x ELSE ZTimesPow(ZMul(x, k), k, e - 1)

(***************************************************************************)
(* PortfolioCalculator: the static candidate pool.                         *)
(***************************************************************************)
\* self.candidates, in source order (display names left out)
candidates ==
    << [symbol |-> "2330.TW",   type |-> "Stock", market |-> "TW"],
       [symbol |-> "0050.TW",   type |-> "ETF",   market |-> "TW"],
       [symbol |-> "0056.TW",   type |-> "ETF",   market |-> "TW"],
       [symbol |-> "AAPL",      type |-> "Stock", market |-> "US"],
       [symbol |-> "VOO",       type |-> "ETF",   market |-> "US"],
       [symbol |-> "00679B.TW", type |-> "Bond",  market |-> "TW"],
       [symbol |-> "BND",       type |-> "Bond",  market |-> "US"] >>

StaticSymbols == {candidates[i].symbol : i \in 1..Len(candidates)}

\* [c for c in self.candidates if c['type'] == t], order kept
CandidatesOfType(t) == SelectSeq(candidates, LAMBDA c : c.type = t)

\* the order of the three process_category calls
CategoryOrder == <<"Stock", "ETF", "Bond">>

\* the names portfolio_calculator.py can resolve at module level: its imports
ImportedNames == {"pd", "np", "timedelta"}
NameDefined(name) == name \in ImportedNames

\* symbol.endswith('.TW') or symbol.endswith('.TWO'), on the symbols of the model
EndsWithTW(symbol) ==
    symbol \in {"2330.TW", "0050.TW", "0056.TW", "00679B.TW", "6488.TWO"}

\* is_us = not (symbol.endswith('.TW') or symbol.endswith('.TWO'))
IsUS(symbol) == ~EndsWithTW(symbol)

(***************************************************************************)
(* Inputs: the arguments of generate_scenarios and the market the fetcher  *)
(* sees during one run.                                                    *)
(***************************************************************************)
MaxCustom == 2

\* a static candidate, a foreign and a domestic symbol outside the pool
CustomSymbols == {"2330.TW", "MSFT", "6488.TWO"}
\* custom entries, weights in percent (the form stores custom_weight / 100):
\* pairs of them sum to less than, exactly and more than 100%
CustomEntries ==
    { [symbol |-> "2330.TW",  weight |-> 40],
      [symbol |-> "MSFT",     weight |-> 40],
      [symbol |-> "MSFT",     weight |-> 60],
      [symbol |-> "6488.TWO", weight |-> 60] }
CustomLists == UNION {[1..n -> CustomEntries] : n \in 0..MaxCustom}

Symbols == StaticSymbols \cup CustomSymbols

Capitals == {-1000, 0, 100000, 1000000}
IncomeGoals == {5000}
\* category weights in percent (w / 100 in the form)
UserWeights ==
    { [Stock |-> 50, ETF |-> 30, Bond |-> 20],
      [Stock |-> 0,  ETF |-> 70, Bond |-> 30] }

\* what the quote source answers for a symbol that has a price
BasePrice ==
    [s \in Symbols |->
        CASE s = "2330.TW"   -> 600
          [] s = "0050.TW"   -> 150
          [] s = "0056.TW"   -> 35
          [] s = "AAPL"      -> 190
          [] s = "VOO"       -> 400
          [] s = "00679B.TW" -> 30
          [] s = "BND"       -> 70
          [] s = "MSFT"      -> 300
          [] OTHER           -> 45]

\* trading days of the two markets inside the 6-month window
TradingDays(symbol) == IF EndsWithTW(symbol) THEN {1, 2, 3} ELSE {2, 3, 4}

\* the market of one run: the symbols without a price, those without history
MarketCases ==
    { [down |-> {},          nohist |-> {}],
      [down |-> {"MSFT"},    nohist |-> {}],
      [down |-> {"6488.TWO"},nohist |-> {}],
      [down |-> {"AAPL"},    nohist |-> {}],
      [down |-> {"2330.TW"}, nohist |-> {}],
      [down |-> {},          nohist |-> {"2330.TW", "VOO"}],
      [down |-> {},          nohist |-> Symbols] }

\* what yf.Ticker("USDTWD=X") answers: fast_info.last_price (0: none), the last
\* Close of history(period="1d") (0: empty frame), or an exception
FxCases ==
    { [raises |-> FALSE, last_price |-> 30, hist_close |-> 0],
      [raises |-> FALSE, last_price |-> 0,  hist_close |-> 31],
      [raises |-> FALSE, last_price |-> 0,  hist_close |-> 0],
      [raises |-> TRUE,  last_price |-> 0,  hist_close |-> 0] }


(***************************************************************************)
(* DataFetcher, as the calculator sees it.                                 *)
(***************************************************************************)
\* the rate get_exchange_rate returns when the quote source gives nothing
FallbackRate == Rat(65, 2)

\* mutant: a quote source that gives nothing is answered with parity
get_exchange_rate_parity(fx) ==
    IF fx.raises THEN RInt(1)
    ELSE IF fx.last_price # 0 THEN RInt(fx.last_price)
    ELSE IF fx.hist_close # 0 THEN RInt(fx.hist_close)
    ELSE RInt(1)

\* DataFetcher.get_exchange_rate: never raises to its caller
get_exchange_rate(fx) ==
    IF fx.raises THEN FallbackRate
    ELSE IF fx.last_price # 0 THEN RInt(fx.last_price)
    ELSE IF fx.hist_close # 0 THEN RInt(fx.hist_close)
    ELSE FallbackRate

\* DataFetcher.get_stock_price: a price, or 0 for None (both are falsy)
get_stock_price(mkt, symbol) ==
    IF symbol \in mkt.down THEN 0 ELSE BasePrice[symbol]

\* DataFetcher.get_historical_data(symbol, period="6mo")['Close']: a series
\* date -> Close, the empty series for an empty frame
get_historical_close(mkt, symbol) ==
    IF symbol \in mkt.nohist
    THEN [d \in {} |-> 0]
    ELSE [d \in TradingDays(symbol) |-> BasePrice[symbol] + d]

(***************************************************************************)
(* State.                                                                  *)
(***************************************************************************)
VARIABLES
    \* generate_scenarios: its arguments, the market, and its locals
    total_capital,        \* TWD, an integer
    monthly_income_goal,
    user_weights,         \* [Stock, ETF, Bond] in percent
    custom_allocations,   \* sequence of [symbol, weight in percent]
    market,               \* an element of MarketCases
    fx,                   \* an element of FxCases
    scn,                  \* the build under way: 1 Custom, 2 Conservative, 3 Aggressive
    ports,                \* the tuples the finished builds returned
    scenarios,            \* the mapping generate_scenarios returns (empty until then)
    raised,               \* the exception that escaped, "" when none
    pc,
    \* calculate_portfolio: arguments and locals of the build under way
    weights,
    customs,
    required_yield,
    usd_twd,
    remaining_capital,
    portfolio,
    ci,                   \* position in the custom list
    cat,                  \* position in CategoryOrder
    ki,                   \* position in the category's candidates (0: entering)
    capital_cat,          \* capital_stock / capital_etf / capital_bond
    allocation_per_asset,
    hi,                   \* position in portfolio of the history pass
    portfolio_history,    \* [index: dates, cols: symbol -> series]
    total_history,
    calls,                \* the fetcher calls of this build, in order: [fn, symbol, site]
    \* calculate_dca_projection
    dca,
    \* analyze_fill_dividend
    fill,
    \* DataFetcher.get_dividend_info
    div

scenarioVars == <<total_capital, monthly_income_goal, user_weights,
                  custom_allocations, market, fx, scn, ports, scenarios, raised>>
buildVars == <<weights, customs, required_yield, usd_twd, remaining_capital,
               portfolio, ci, cat, ki, capital_cat, allocation_per_asset, hi,
               portfolio_history, total_history, calls>>
vars == <<scenarioVars, buildVars, pc, dca, fill, div>>

ScenarioNames == <<"Custom", "Conservative", "Aggressive">>

\* the weights and the custom list generate_scenarios passes to build number k
ScenarioWeights(k) ==
    CASE k = 1 -> user_weights
      [] k = 2 -> [Stock |-> 20, ETF |-> 40, Bond |-> 40]
      [] OTHER -> [Stock |-> 60, ETF |-> 40, Bond |-> 0]

ScenarioCustoms(k) == IF k = 1 THEN custom_allocations ELSE <<>>

\* one call of a DataFetcher method, and the part of calculate_portfolio making it
FetchCall(fn, symbol, site) == [fn |-> fn, symbol |-> symbol, site |-> site]

\* the calls the custom pass makes for an entry once it has a price
CustomFetches(symbol) ==
    << FetchCall("get_dividend_info", symbol, "custom"),
       FetchCall("get_historical_data", symbol, "custom"),
       FetchCall("get_dividend_history", symbol, "custom"),
       FetchCall("get_stock_name", symbol, "custom") >>

\* the calls process_category makes for a candidate, priced or not
CandidateFetches(symbol) ==
    << FetchCall("get_stock_price", symbol, "category"),
       FetchCall("get_dividend_info", symbol, "category"),
       FetchCall("get_historical_data", symbol, "category"),
       FetchCall("get_dividend_history", symbol, "category") >>

EmptyFrame == [index |-> {}, cols |-> [s \in {} |-> <<>>]]
EmptySeries == [d \in {} |-> RZero]


(***************************************************************************)
(* calculate_portfolio: the arithmetic of one line.                        *)
(***************************************************************************)
\* required_yield = (annual_income_goal / total_capital) * 100 if total_capital > 0 else 0
RequiredYield(capital, goal) ==
    IF capital > 0 THEN RMul(Rat(goal * 12, capital), RInt(100)) ELSE RZero

\* price_twd: the native price, times usd_twd for a foreign instrument
PriceTwd(price, foreign, rate) ==
    IF foreign THEN RMul(RInt(price), rate) ELSE RInt(price)

\* mutant: round(alloc / price_twd), to the nearest share
QuantityRounded(alloc, price_twd) ==
    RFloor(RAdd(RDiv(alloc, price_twd), Rat(1, 2)))

\* mutant: alloc / price_twd rounded up to a whole share
QuantityCeiling(alloc, price_twd) ==
    0 - RFloor(RSub(RZero, RDiv(alloc, price_twd)))

\* int(alloc / price_twd)
Quantity(alloc, price_twd) == PyInt(RDiv(alloc, price_twd))

\* the dict the custom pass appends; alloc is the local alloc_capital it was sized from
CustomLine(symbol, price, alloc, rate) ==
    LET price_twd == PriceTwd(price, IsUS(symbol), rate)
        quantity  == IF RPos(price_twd) THEN Quantity(alloc, price_twd) ELSE 0
    IN  [symbol |-> symbol, type |-> "Custom", price |-> price,
         price_twd |-> price_twd, quantity |-> quantity,
         cost_twd |-> RMul(RInt(quantity), price_twd), alloc |-> alloc]

\* the dict process_category appends; alloc is allocation_per_asset
CategoryLine(candidate, price, alloc, rate) ==
    LET price_twd == PriceTwd(price, candidate.market = "US", rate)
        quantity  == Quantity(alloc, price_twd)
    IN  [symbol |-> candidate.symbol, type |-> candidate.type, price |-> price,
         price_twd |-> price_twd, quantity |-> quantity,
         cost_twd |-> RMul(RInt(quantity), price_twd), alloc |-> alloc]

\* alloc_capital = total_capital * weight
CustomBudget(capital, weight) == RMul(RInt(capital), Rat(weight, 100))

\* mutant: the category weights applied to the total capital
CategoryBudgetsOfCapital(remaining, w) ==
    [t \in {"Stock", "ETF", "Bond"} |-> RMul(RInt(total_capital), Rat(w[t], 100))]

\* capital_stock, capital_etf, capital_bond
CategoryBudgets(remaining, w) ==
    [t \in {"Stock", "ETF", "Bond"} |-> RMul(remaining, Rat(w[t], 100))]

\* mutant: the category's budget split among the candidates that have a price
AllocationPerAssetPriced(available_capital, cs) ==
    RDiv(available_capital,
         RInt(Len(SelectSeq(cs, LAMBDA c : get_stock_price(market, c.symbol) # 0))))

\* allocation_per_asset = available_capital / len(candidates)
AllocationPerAsset(available_capital, cs) ==
    RDiv(available_capital, RInt(Len(cs)))

(***************************************************************************)
(* calculate_portfolio: the history pass.                                  *)
(***************************************************************************)
\* recent_history: Close scaled by the quantity, and by usd_twd for a foreign symbol
ScaledHistory(close, symbol, quantity, rate) ==
    [d \in DOMAIN close |->
        IF IsUS(symbol)
        THEN RMul(RMul(RInt(close[d]), rate), RInt(quantity))
        ELSE RMul(RInt(close[d]), RInt(quantity))]

FrameEmpty(frame) == frame.index = {} \/ DOMAIN frame.cols = {}

\* the frame after one line with a non-empty history: the first column, an
\* outer join of a new column, or nothing for a symbol that has a column
JoinHistory(frame, symbol, series) ==
    IF FrameEmpty(frame)
    THEN [index |-> DOMAIN series, cols |-> (symbol :> series)]
    ELSE IF symbol \notin DOMAIN frame.cols
    THEN [index |-> frame.index \cup DOMAIN series,
          cols  |-> frame.cols @@ (symbol :> series)]
    ELSE frame

\* portfolio_history.sum(axis=1): NaN cells are skipped, an all-NaN row sums to 0
RowSum(frame) ==
    [d \in frame.index |->
        LET have == {s \in DOMAIN frame.cols : d \in DOMAIN frame.cols[s]}
        IN  RSumOver(have, [s \in have |-> frame.cols[s][d]])]

\* Series.ffill over the index: a missing date takes the latest earlier value
FFill(index, series) ==
    [d \in {x \in index : \E e \in DOMAIN series : e <= x} |->
        LET e == CHOOSE e \in DOMAIN series :
                    e <= d /\ \A f \in DOMAIN series : f <= d => f <= e
        IN  series[e]]

\* Series.bfill over the index: a missing date takes the earliest later value
BFill(index, series) ==
    [d \in {x \in index : \E e \in DOMAIN series : e >= x} |->
        LET e == CHOOSE e \in DOMAIN series :
                    e >= d /\ \A f \in DOMAIN series : f >= d => f >= e
        IN  series[e]]

\* total_history: empty, or portfolio_history.sum(axis=1).ffill().bfill()
TotalHistory(frame) ==
    IF FrameEmpty(frame) THEN EmptySeries
    ELSE BFill(frame.index, FFill(frame.index, RowSum(frame)))


(***************************************************************************)
(* generate_scenarios and calculate_portfolio, step by step.               *)
(***************************************************************************)
DcaIdle == [pc |-> "idle"]
FillIdle == [pc |-> "idle"]
DivIdle == [pc |-> "idle"]

ZeroBudgets == [t \in {"Stock", "ETF", "Bond"} |-> RZero]

Init ==
    /\ total_capital \in Capitals
    /\ monthly_income_goal \in IncomeGoals
    /\ user_weights \in UserWeights
    /\ custom_allocations \in CustomLists
    /\ market \in MarketCases
    /\ fx \in FxCases
    /\ scn = 1
    /\ ports = <<>>
    /\ scenarios = [k \in {} |-> <<>>]
    /\ raised = ""
    /\ pc = "start"
    /\ weights = ScenarioWeights(1)
    /\ customs = ScenarioCustoms(1)
    /\ required_yield = RZero
    /\ usd_twd = RZero
    /\ remaining_capital = RZero
    /\ portfolio = <<>>
    /\ ci = 1
    /\ cat = 1
    /\ ki = 0
    /\ capital_cat = ZeroBudgets
    /\ allocation_per_asset = RZero
    /\ hi = 1
    /\ portfolio_history = EmptyFrame
    /\ total_history = EmptySeries
    /\ calls = <<>>
    /\ dca = DcaIdle
    /\ fill = FillIdle
    /\ div = DivIdle

\* calculate_portfolio up to the custom loop: required_yield, the one
\* get_exchange_rate call, remaining_capital = total_capital
BeginBuild ==
    /\ pc = "start"
    /\ weights' = ScenarioWeights(scn)
    /\ customs' = ScenarioCustoms(scn)
    /\ required_yield' = RequiredYield(total_capital, monthly_income_goal)
    /\ portfolio' = <<>>
    /\ usd_twd' = get_exchange_rate(fx)
    /\ calls' = <<FetchCall("get_exchange_rate", "USDTWD=X", "build")>>
    /\ remaining_capital' = RInt(total_capital)
    /\ ci' = 1
    /\ cat' = 1
    /\ ki' = 0
    /\ capital_cat' = ZeroBudgets
    /\ allocation_per_asset' = RZero
    /\ hi' = 1
    /\ portfolio_history' = EmptyFrame
    /\ total_history' = EmptySeries
    /\ pc' = "custom"
    /\ UNCHANGED <<scenarioVars, dca, fill, div>>

\* a custom entry whose price is falsy: logging.warning(...) then continue; the
\* name logging is resolved when the statement runs
CustomSkip ==
    /\ pc = "custom"
    /\ ci <= Len(customs)
    /\ get_stock_price(market, customs[ci].symbol) = 0
    /\ calls' = Append(calls, FetchCall("get_stock_price", customs[ci].symbol, "custom"))
    /\ IF NameDefined("logging")
       THEN /\ ci' = ci + 1
            /\ UNCHANGED <<pc, raised>>
       ELSE /\ raised' = "NameError"
            /\ pc' = "raised"
            /\ UNCHANGED ci
    /\ UNCHANGED <<total_capital, monthly_income_goal, user_weights,
                   custom_allocations, market, fx, scn, ports, scenarios>>
    /\ UNCHANGED <<weights, customs, required_yield, usd_twd, remaining_capital,
                   portfolio, cat, ki, capital_cat, allocation_per_asset, hi,
                   portfolio_history, total_history, dca, fill, div>>

\* a custom entry with a price: its budget leaves remaining_capital, its line is appended
CustomAlloc ==
    /\ pc = "custom"
    /\ ci <= Len(customs)
    /\ LET symbol == customs[ci].symbol
           price  == get_stock_price(market, symbol)
           alloc_capital == CustomBudget(total_capital, customs[ci].weight)
       IN  /\ price # 0
           /\ remaining_capital' = RSub(remaining_capital, alloc_capital)
           /\ portfolio' = Append(portfolio,
                                  CustomLine(symbol, price, alloc_capital, usd_twd))
           /\ calls' = Append(calls, FetchCall("get_stock_price", symbol, "custom"))
                           \o CustomFetches(symbol)
    /\ ci' = ci + 1
    /\ UNCHANGED <<scenarioVars, pc, weights, customs, required_yield, usd_twd,
                   cat, ki, capital_cat, allocation_per_asset, hi,
                   portfolio_history, total_history, dca, fill, div>>

\* after the custom loop: if remaining_capital > 0 the three category budgets,
\* otherwise straight to the history pass
CategoryBegin ==
    /\ pc = "custom"
    /\ ci > Len(customs)
    /\ IF RPos(remaining_capital)
       THEN /\ capital_cat' = CategoryBudgets(remaining_capital, weights)
            /\ pc' = "process"
       ELSE /\ pc' = "history"
            /\ UNCHANGED capital_cat
    /\ cat' = 1
    /\ ki' = 0
    /\ hi' = 1
    /\ UNCHANGED <<scenarioVars, weights, customs, required_yield, usd_twd,
                   remaining_capital, portfolio, ci, allocation_per_asset,
                   portfolio_history, total_history, calls, dca, fill, div>>

\* the control state after process_category returns for category number cat
AfterCategory ==
    IF cat < Len(CategoryOrder)
    THEN /\ cat' = cat + 1
         /\ ki' = 0
         /\ pc' = "process"
    ELSE /\ pc' = "history"
         /\ UNCHANGED <<cat, ki>>

\* process_category up to its loop: return at once without candidates or
\* budget, else allocation_per_asset = available_capital / len(candidates)
ProcessEnter ==
    /\ pc = "process"
    /\ ki = 0
    /\ LET cs == CandidatesOfType(CategoryOrder[cat])
           available_capital == capital_cat[CategoryOrder[cat]]
       IN  IF Len(cs) = 0 \/ ~RPos(available_capital)
           THEN /\ AfterCategory
                /\ UNCHANGED allocation_per_asset
           ELSE /\ allocation_per_asset' = AllocationPerAsset(available_capital, cs)
                /\ ki' = 1
                /\ UNCHANGED <<pc, cat>>
    /\ UNCHANGED <<scenarioVars, weights, customs, required_yield, usd_twd,
                   remaining_capital, portfolio, ci, capital_cat, hi,
                   portfolio_history, total_history, calls, dca, fill, div>>

\* one iteration of process_category's loop: a line if the candidate has a price
ProcessCandidate ==
    /\ pc = "process"
    /\ ki >= 1
    /\ LET cs == CandidatesOfType(CategoryOrder[cat])
           candidate == cs[ki]
           price == get_stock_price(market, candidate.symbol)
       IN  /\ portfolio' =
                 IF price # 0
                 THEN Append(portfolio,
                             CategoryLine(candidate, price, allocation_per_asset, usd_twd))
                 ELSE portfolio
           /\ IF ki < Len(cs)
              THEN /\ ki' = ki + 1
                   /\ UNCHANGED <<pc, cat>>
              ELSE AfterCategory
           /\ calls' = calls \o CandidateFetches(candidate.symbol)
    /\ UNCHANGED <<scenarioVars, weights, customs, required_yield, usd_twd,
                   remaining_capital, ci, capital_cat, allocation_per_asset, hi,
                   portfolio_history, total_history, dca, fill, div>>

\* one iteration of the history loop: the line's 6-month closes, scaled, joined
HistoryLine ==
    /\ pc = "history"
    /\ hi <= Len(portfolio)
    /\ LET item == portfolio[hi]
           close == get_historical_close(market, item.symbol)
       IN  portfolio_history' =
               IF DOMAIN close # {}
               THEN JoinHistory(portfolio_history, item.symbol,
                                ScaledHistory(close, item.symbol, item.quantity, usd_twd))
               ELSE portfolio_history
    /\ hi' = hi + 1
    /\ calls' = Append(calls, FetchCall("get_historical_data", portfolio[hi].symbol, "history"))
    /\ UNCHANGED <<scenarioVars, pc, weights, customs, required_yield, usd_twd,
                   remaining_capital, portfolio, ci, cat, ki, capital_cat,
                   allocation_per_asset, total_history, dca, fill, div>>

\* total_history and the return of calculate_portfolio to generate_scenarios,
\* which starts the next build or goes on to build its mapping
BuildReturn ==
    /\ pc = "history"
    /\ hi > Len(portfolio)
    /\ total_history' = TotalHistory(portfolio_history)
    /\ ports' = Append(ports, [portfolio |-> portfolio,
                               required_yield |-> required_yield,
                               usd_twd |-> usd_twd,
                               total_history |-> total_history'])
    /\ IF scn < Len(ScenarioNames)
       THEN /\ scn' = scn + 1
            /\ pc' = "start"
       ELSE /\ pc' = "return"
            /\ UNCHANGED scn
    /\ UNCHANGED <<total_capital, monthly_income_goal, user_weights,
                   custom_allocations, market, fx, scenarios, raised>>
    /\ UNCHANGED <<weights, customs, required_yield, usd_twd, remaining_capital,
                   portfolio, ci, cat, ki, capital_cat, allocation_per_asset, hi,
                   portfolio_history, calls, dca, fill, div>>

\* generate_scenarios returns {'Custom': ..., 'Conservative': ..., 'Aggressive': ...}
ScenariosReturn ==
    /\ pc = "return"
    /\ scenarios' = [k \in {ScenarioNames[i] : i \in 1..Len(ports)} |->
                        LET i == CHOOSE i \in 1..Len(ports) : ScenarioNames[i] = k
                        IN  ports[i]]
    /\ pc' = "done"
    /\ UNCHANGED <<total_capital, monthly_income_goal, user_weights,
                   custom_allocations, market, fx, scn, ports, raised>>
    /\ UNCHANGED <<buildVars, dca, fill, div>>

Next ==
    \/ BeginBuild
    \/ CustomSkip
    \/ CustomAlloc
    \/ CategoryBegin
    \/ ProcessEnter
    \/ ProcessCandidate
    \/ HistoryLine
    \/ BuildReturn
    \/ ScenariosReturn

Spec == Init /\ [][Next]_vars


(***************************************************************************)
(* Claims about calculate_portfolio and generate_scenarios (Spec).         *)
(***************************************************************************)
\* the lines of the build under way, as a set of positions
Lines == 1..Len(portfolio)

\* the custom entry at the head of the loop has no price
AtUnpricedCustom ==
    /\ pc = "custom"
    /\ ci <= Len(customs)
    /\ get_stock_price(market, customs[ci].symbol) = 0

\* C1: a custom request whose price is unavailable is skipped without an
\* exception: no line, no change of remaining_capital, and the build goes on
\* to the next custom entry
C1_UnpricedCustomSkipped ==
    [][AtUnpricedCustom =>
          /\ raised' = ""
          /\ pc' = "custom"
          /\ ci' = ci + 1
          /\ portfolio' = portfolio
          /\ remaining_capital' = remaining_capital]_vars

\* the budget a line was given according to the claim: capital x weight of a
\* custom entry naming it, or its category's budget over the category's size
BudgetOf(l) ==
    IF l.type = "Custom"
    THEN {CustomBudget(total_capital, customs[j].weight) :
             j \in {k \in 1..Len(customs) : customs[k].symbol = l.symbol}}
    ELSE {RDiv(capital_cat[l.type], RInt(Len(CandidatesOfType(l.type))))}

\* the symbols quoted in a foreign currency
ForeignSymbols == {"AAPL", "VOO", "BND", "MSFT"}

\* C2: for capital > 0, every line has priceHome = price (x rate if foreign),
\* quantity = floor(B / priceHome), cost = quantity x priceHome and
\* 0 <= cost <= B, B being the budget the line was given
C2_QuantityIsFloorOfBudget ==
    total_capital > 0 =>
        \A i \in Lines :
            LET l == portfolio[i]
                priceHome == IF l.symbol \in ForeignSymbols
                             THEN RMul(RInt(l.price), usd_twd)
                             ELSE RInt(l.price)
            IN  /\ l.alloc \in BudgetOf(l)
                /\ l.price_twd = priceHome
                /\ l.quantity = RFloor(RDiv(l.alloc, priceHome))
                /\ l.cost_twd = RMul(RInt(l.quantity), priceHome)
                /\ RLeq(RZero, l.cost_twd)
                /\ RLeq(l.cost_twd, l.alloc)

\* C2 witness: a finished build with capital > 0 holding a custom line and a
\* foreign category line, both with shares bought and budget left over
C2_Witness ==
    /\ total_capital > 0
    /\ pc = "history"
    /\ \E i, j \in Lines :
          /\ portfolio[i].type = "Custom"
          /\ portfolio[j].type # "Custom"
          /\ portfolio[j].symbol \in ForeignSymbols
          /\ portfolio[i].quantity > 0
          /\ portfolio[j].quantity > 0
          /\ RLess(portfolio[i].cost_twd, portfolio[i].alloc)
          /\ RLess(portfolio[j].cost_twd, portfolio[j].alloc)

\* C3: every line's quantity is a non-negative integer, whatever the capital
C3_QuantityNonNegative ==
    \A i \in Lines : portfolio[i].quantity \in Nat

\* the symbols of the lines of a returned build
SymbolsOf(build) ==
    {build.portfolio[i].symbol : i \in 1..Len(build.portfolio)}

CustomListSymbols ==
    {custom_allocations[i].symbol : i \in 1..Len(custom_allocations)}

\* C4: generate_scenarios always returns a mapping with exactly the keys
\* Custom, Conservative and Aggressive; Conservative and Aggressive hold no
\* instrument of the caller's custom list; only the Custom build is given
\* the caller's weights and custom list
C4_ScenariosClaim ==
    /\ raised = ""
    /\ pc = "done" =>
          /\ DOMAIN scenarios = {"Custom", "Conservative", "Aggressive"}
          /\ SymbolsOf(scenarios["Conservative"]) \cap CustomListSymbols = {}
          /\ SymbolsOf(scenarios["Aggressive"]) \cap CustomListSymbols = {}
    /\ (scn > 1 /\ pc # "start") =>
          /\ customs = <<>>
          /\ weights = ScenarioWeights(scn)

\* the value the claim gives the aggregate history on date d: every line
\* with a Close on d counts quantity x Close (x rate if foreign)
LineValueOn(build, i, d) ==
    LET l == build.portfolio[i]
        close == get_historical_close(market, l.symbol)
    IN  IF l.symbol \in ForeignSymbols
        THEN RMul(RMul(RInt(close[d]), build.usd_twd), RInt(l.quantity))
        ELSE RMul(RInt(close[d]), RInt(l.quantity))

LinesTradedOn(build, d) ==
    {i \in 1..Len(build.portfolio) :
        d \in DOMAIN get_historical_close(market, build.portfolio[i].symbol)}

\* C10: in every returned build (capital > 0), the aggregate history has a
\* value on each date some line has a Close, and that value counts every line
\* that has a Close on the date, two lines of one symbol included
C10_AggregateCountsEveryLine ==
    total_capital > 0 =>
    \A b \in 1..Len(ports) :
        LET build == ports[b]
            dates == UNION {DOMAIN get_historical_close(market, build.portfolio[i].symbol) :
                               i \in 1..Len(build.portfolio)}
        IN  /\ DOMAIN build.total_history = dates
            /\ \A d \in dates :
                  LET on == LinesTradedOn(build, d)
                  IN  build.total_history[d] =
                          RSumOver(on, [i \in on |-> LineValueOn(build, i, d)])

\* the lines of a returned build that have any 6-month history
LinesWithHistory(build) ==
    {i \in 1..Len(build.portfolio) :
        DOMAIN get_historical_close(market, build.portfolio[i].symbol) # {}}

\* the value the claim gives line i on date d of the union: its own value if
\* it traded on d, else its most recent earlier value, else its earliest later one
FilledValueOn(build, i, d) ==
    LET own     == DOMAIN get_historical_close(market, build.portfolio[i].symbol)
        earlier == {e \in own : e < d}
        later   == {e \in own : e > d}
    IN  IF d \in own THEN LineValueOn(build, i, d)
        ELSE IF earlier # {}
        THEN LineValueOn(build, i, CHOOSE e \in earlier : \A f \in earlier : f <= e)
        ELSE LineValueOn(build, i, CHOOSE e \in later : \A f \in later : e <= f)

\* no two lines of the build name the same symbol
DistinctSymbols(build) ==
    \A i, j \in 1..Len(build.portfolio) :
        build.portfolio[i].symbol = build.portfolio[j].symbol => i = j

\* C11: in every returned build (capital > 0, one line per symbol), on each
\* date of the union of the per-symbol dates the aggregate is the sum, over
\* every line that has any history, of the line's value on that date filled
\* forward (else backward) where the symbol did not trade: the fill comes
\* before the sum, so no such line contributes nothing on any date
C11_FilledBeforeSum ==
    total_capital > 0 =>
    \A b \in 1..Len(ports) :
        LET build == ports[b]
            with  == LinesWithHistory(build)
            dates == UNION {DOMAIN get_historical_close(market, build.portfolio[i].symbol) :
                               i \in with}
        IN  DistinctSymbols(build) =>
                \A d \in dates :
                    /\ d \in DOMAIN build.total_history
                    /\ build.total_history[d] =
                           RSumOver(with, [i \in with |-> FilledValueOn(build, i, d)])

\* the positions of the log holding a call of get_exchange_rate
RateCalls == {i \in 1..Len(calls) : calls[i].fn = "get_exchange_rate"}

\* the rate the claim gives a run: the quote, or 32.5 when the quote source
\* fails or has neither a price nor a history
ClaimedRate ==
    IF fx.raises \/ (fx.last_price = 0 /\ fx.hist_close = 0)
    THEN Rat(65, 2)
    ELSE IF fx.last_price # 0 THEN RInt(fx.last_price) ELSE RInt(fx.hist_close)

\* the first line of the build under way that names the symbol
FirstLineOf(symbol) ==
    CHOOSE i \in Lines : portfolio[i].symbol = symbol /\
                          \A j \in Lines : portfolio[j].symbol = symbol => i <= j

\* C13: a build calls get_exchange_rate exactly once, before any other fetch;
\* the rate is the quote or the fallback 32.5, never an exception; every
\* foreign line is priced with that rate and every foreign column of the
\* history frame is scaled with it
C13_OneRatePerBuild ==
    /\ raised \in {"", "NameError"}
    /\ (pc \notin {"start", "idle"} \/ calls # <<>>) =>
          /\ RateCalls = {1}
          /\ usd_twd = ClaimedRate
          /\ \A i \in Lines :
                portfolio[i].symbol \in ForeignSymbols =>
                    portfolio[i].price_twd = RMul(RInt(portfolio[i].price), ClaimedRate)
          /\ \A s \in DOMAIN portfolio_history.cols :
                s \in ForeignSymbols =>
                    \A d \in DOMAIN portfolio_history.cols[s] :
                        portfolio_history.cols[s][d] =
                            RMul(RMul(RInt(get_historical_close(market, s)[d]), ClaimedRate),
                                 RInt(portfolio[FirstLineOf(s)].quantity))
    /\ \A b \in 1..Len(ports) : ports[b].usd_twd = ClaimedRate

\* C13 witness: the quote source failed, the build went on with 32.5 and has
\* priced a foreign line and scaled its history with it after a single call
C13_Witness ==
    /\ fx.raises
    /\ pc = "history"
    /\ usd_twd = Rat(65, 2)
    /\ Cardinality(RateCalls) = 1
    /\ \E i \in Lines :
          /\ portfolio[i].symbol \in ForeignSymbols
          /\ portfolio[i].quantity > 0
          /\ portfolio[i].symbol \in DOMAIN portfolio_history.cols

\* the entries of the custom list whose price the quote source resolves, in
\* list order
PricedCustoms ==
    SelectSeq(customs, LAMBDA c : get_stock_price(market, c.symbol) # 0)

\* the custom lines of the build under way, in the order they were appended
CustomLines == SelectSeq(portfolio, LAMBDA l : l.type = "Custom")

\* the custom loop of the build under way has run to its end
CustomPassOver ==
    \/ pc = "custom" /\ ci > Len(customs)
    \/ pc \in {"process", "history"}

\* capital x weight, summed over the priced entries of the custom list
PricedBudgetSum ==
    LET P == 1..Len(PricedCustoms)
    IN  RSumOver(P, [j \in P |-> RMul(RInt(total_capital),
                                        Rat(PricedCustoms[j].weight, 100))])

\* C14: the custom pass runs to its end whether or not every entry has a
\* price, and then remaining_capital = capital - the sum of capital x weight
\* over exactly the priced entries; the budget of each custom line is
\* capital x weight of its own entry, wherever the entry stands in the list
C14_RemainingAfterCustomPass ==
    /\ pc # "raised"
    /\ CustomPassOver =>
          remaining_capital = RSub(RInt(total_capital), PricedBudgetSum)
    /\ Len(CustomLines) <= Len(PricedCustoms)
    /\ \A k \in 1..Len(CustomLines) :
          /\ CustomLines[k].symbol = PricedCustoms[k].symbol
          /\ CustomLines[k].alloc =
                 RMul(RInt(total_capital), Rat(PricedCustoms[k].weight, 100))

\* the calls of the log made by process_category
CategoryCalls == {i \in 1..Len(calls) : calls[i].site = "category"}

\* the lines of the build under way that came from the candidate pool
CategoryLines == {i \in Lines : portfolio[i].type \in {"Stock", "ETF", "Bond"}}

\* C15: once the custom pass is over, a remaining capital of zero or less
\* means no category allocation at all (no Stock/ETF/Bond line, no fetch by
\* process_category); a positive one is split into remaining x weight for
\* each category, the weights taken as given
C15_CategoriesOnlyFromPositiveRemainder ==
    /\ (CustomPassOver /\ ~RPos(remaining_capital)) =>
          /\ pc # "process"
          /\ CategoryLines = {}
          /\ CategoryCalls = {}
    /\ (pc \in {"process", "history"} /\ RPos(remaining_capital)) =>
          \A t \in {"Stock", "ETF", "Bond"} :
              capital_cat[t] = RMul(remaining_capital, Rat(weights[t], 100))

\* C15 witness: priced custom weights of 120% of a positive capital left a
\* negative remainder, and the build is past the category pass with its two
\* custom lines only
C15_Witness ==
    /\ total_capital > 0
    /\ pc = "history"
    /\ hi > Len(portfolio)
    /\ RLess(remaining_capital, RZero)
    /\ Len(portfolio) = Len(customs)
    /\ Len(customs) > 1
    /\ CategoryCalls = {}

\* the static candidates of a category, and those of them with a price
PoolOf(t) == {i \in 1..Len(candidates) : candidates[i].type = t}
PricedPoolOf(t) ==
    {i \in PoolOf(t) : get_stock_price(market, candidates[i].symbol) # 0}

\* the category pass of the build under way is over
CategoryPassOver == pc = "history" /\ RPos(remaining_capital)

\* C16: every line of a category is sized from the category's budget divided
\* by the number of static candidates of the category, priced or not; once
\* the category pass is over, each category with a positive budget has one
\* line per priced candidate and none for an unpriced one, and no error was
\* raised there; capital 1,000,000 with weights 50/30/20 and no custom list
\* gives budgets 500,000 / 300,000 / 200,000 and required_yield 6
C16_EvenSplitOverThePool ==
    /\ \A i \in CategoryLines :
          portfolio[i].alloc =
              RDiv(capital_cat[portfolio[i].type],
                   RInt(Cardinality(PoolOf(portfolio[i].type))))
    /\ CategoryPassOver =>
          /\ raised = ""
          /\ \A t \in {"Stock", "ETF", "Bond"} :
                RPos(capital_cat[t]) =>
                    /\ {portfolio[i].symbol : i \in {j \in Lines : portfolio[j].type = t}}
                          = {candidates[i].symbol : i \in PricedPoolOf(t)}
                    /\ Cardinality({j \in Lines : portfolio[j].type = t})
                          = Cardinality(PricedPoolOf(t))
    /\ (/\ pc \in {"process", "history"}
        /\ total_capital = 1000000
        /\ monthly_income_goal = 5000
        /\ weights = [Stock |-> 50, ETF |-> 30, Bond |-> 20]
        /\ customs = <<>>) =>
          /\ capital_cat = [Stock |-> RInt(500000), ETF |-> RInt(300000),
                            Bond |-> RInt(200000)]
          /\ required_yield = RInt(6)

\* C16 witness: capital 1,000,000 at 50/30/20 without a custom list and AAPL
\* without a price: the Stock category holds the 2330.TW line alone, sized
\* from 250,000, and the build has six lines
C16_Witness ==
    /\ CategoryPassOver
    /\ total_capital = 1000000
    /\ weights = [Stock |-> 50, ETF |-> 30, Bond |-> 20]
    /\ customs = <<>>
    /\ get_stock_price(market, "AAPL") = 0
    /\ Len(portfolio) = 6
    /\ \E i \in Lines :
          /\ portfolio[i].symbol = "2330.TW"
          /\ portfolio[i].alloc = RInt(250000)
          /\ portfolio[i].quantity = 416
    /\ \A i \in Lines : portfolio[i].symbol # "AAPL"

\* the place of a line's kind in the returned sequence
KindRank(type) ==
    CASE type = "Custom" -> 0
      [] type = "Stock"  -> 1
      [] type = "ETF"    -> 2
      [] OTHER           -> 3

\* the place of a static candidate in the pool
PoolIndex(symbol) == CHOOSE i \in 1..Len(candidates) : candidates[i].symbol = symbol

\* C17: every build returns its line sequence, an unpriced custom entry being
\* skipped; the custom lines come first and are the priced entries of the
\* custom list in list order; Stock, ETF and Bond lines follow in that order,
\* each category in pool order; no category line precedes a custom line
C17_LinesInPassOrder ==
    /\ pc # "raised"
    /\ \A i, j \in Lines :
          i < j =>
              /\ KindRank(portfolio[i].type) <= KindRank(portfolio[j].type)
              /\ (portfolio[i].type = portfolio[j].type /\ portfolio[i].type # "Custom") =>
                    PoolIndex(portfolio[i].symbol) < PoolIndex(portfolio[j].symbol)
    /\ CustomPassOver =>
          /\ Len(CustomLines) = Len(PricedCustoms)
          /\ \A k \in 1..Len(CustomLines) :
                CustomLines[k].symbol = PricedCustoms[k].symbol
    /\ \A b \in 1..Len(ports) :
          \A i, j \in 1..Len(ports[b].portfolio) :
              i < j => KindRank(ports[b].portfolio[i].type)
                          <= KindRank(ports[b].portfolio[j].type)

\* the preconditions of the budget invariant: capital > 0, category weights
\* that are non-negative and sum to 100%, custom weights within 0..100% that
\* sum to at most 100%, a positive price for every symbol and a positive rate
BudgetPreconditions ==
    /\ total_capital > 0
    /\ \A t \in {"Stock", "ETF", "Bond"} : weights[t] >= 0
    /\ weights["Stock"] + weights["ETF"] + weights["Bond"] = 100
    /\ \A k \in 1..Len(customs) : customs[k].weight \in 0..100
    /\ RLeq(RSumOver(1..Len(customs), [k \in 1..Len(customs) |-> RInt(customs[k].weight)]),
            RInt(100))
    /\ \A s \in Symbols : get_stock_price(market, s) > 0
    /\ RPos(usd_twd)

\* the sum of cost_twd over a line sequence
TotalCost(lines) ==
    RSumOver(1..Len(lines), [i \in 1..Len(lines) |-> lines[i].cost_twd])

\* the budgets handed out by the build under way: one per custom line, and
\* the three category budgets when there was a category pass
BudgetsHandedOut ==
    LET C == 1..Len(CustomLines)
        custom == RSumOver(C, [k \in C |-> CustomLines[k].alloc])
        T == {"Stock", "ETF", "Bond"}
        category == IF RPos(remaining_capital)
                    THEN RSumOver(T, [t \in T |-> capital_cat[t]])
                    ELSE RZero
    IN  RAdd(custom, category)

MonthsPerYear == 12
\* annual_growth_rate = 0.03, in percent
GrowthPercent == 3
\* the denominator of monthly_return: / 100, then / 12
RateDen == 100 * MonthsPerYear

MaxYears == 2
MonthlyAmounts == {-500, 0, 1000, 2500}
\* portfolio_yield_percent; 1 + monthly_return is (RateDen + GrowthPercent + y) / RateDen:
\* -1, 0, 1/2, 1, 1203/1200, 1208/1200, 3/2
YieldPercents == {-2403, -1203, -603, -3, 0, 5, 597}

\* monthly_return * RateDen
MonthlyReturnNum(y) == y + GrowthPercent
\* (1 + monthly_return) * RateDen
GrowthNum(y) == RateDen + MonthlyReturnNum(y)

VZero == [num |-> ZInt(0), exp |-> 0]
\* v + i for an integer i
VAddInt(v, i) == [num |-> ZAdd(v.num, ZTimesPow(ZInt(i), RateDen, v.exp)), exp |-> v.exp]
\* v * (k / RateDen)
VMulRate(v, k) == [num |-> ZMul(v.num, k), exp |-> v.exp + 1]
\* v < w
VLess(v, w) ==
    IF v.exp <= w.exp
    THEN ZLess(ZTimesPow(v.num, RateDen, w.exp - v.exp), w.num)
    ELSE ZLess(v.num, ZTimesPow(w.num, RateDen, v.exp - w.exp))
VEq(v, w) == ~VLess(v, w) /\ ~VLess(w, v)

\* mutant: the balance is overwritten instead of accumulated
GrowStepOverwrites(fv, monthly_amount, y) ==
    VMulRate(VAddInt([num |-> ZInt(0), exp |-> fv.exp], monthly_amount), GrowthNum(y))

\* mutant: growth first, the contribution after it
GrowStepGrowthFirst(fv, monthly_amount, y) ==
    VAddInt(VMulRate(fv, GrowthNum(y)), monthly_amount)

\* current_fv = (current_fv + monthly_amount) * (1 + monthly_return)
GrowStep(fv, monthly_amount, y) == VMulRate(VAddInt(fv, monthly_amount), GrowthNum(y))

\* mutant: range(1, months), the last month left out
LoopMonthsShort(months) == 1..(months - 1)

\* range(1, months + 1)
LoopMonths(months) == 1..months

\* the row appended at a 12-month boundary; the passive income
\* current_fv * (yield / 100) is held as [value, times, per]: value * times / per
DcaPoint(m, cost, fv, y) ==
    [Year |-> m \div MonthsPerYear,
     TotalCost |-> cost,
     AssetValue |-> fv,
     PassiveIncome |-> [value |-> fv, times |-> y, per |-> 100]]

InitDCA ==
    /\ \E a \in MonthlyAmounts, n \in 0..MaxYears, y \in YieldPercents :
          dca = [pc |-> "loop", monthly_amount |-> a, years |-> n, yield |-> y,
                 months |-> n * MonthsPerYear, m |-> 1,
                 current_cost |-> 0, current_fv |-> VZero,
                 data |-> <<>>, result |-> <<>>]
    /\ fill = FillIdle
    /\ div = DivIdle
    /\ pc = "idle"
    /\ total_capital = 0
    /\ monthly_income_goal = 0
    /\ user_weights = ScenarioWeights(2)
    /\ custom_allocations = <<>>
    /\ market = [down |-> {}, nohist |-> {}]
    /\ fx = [raises |-> TRUE, last_price |-> 0, hist_close |-> 0]
    /\ scn = 1
    /\ ports = <<>>
    /\ scenarios = [k \in {} |-> <<>>]
    /\ raised = ""
    /\ weights = ScenarioWeights(2)
    /\ customs = <<>>
    /\ required_yield = RZero
    /\ usd_twd = RZero
    /\ remaining_capital = RZero
    /\ portfolio = <<>>
    /\ ci = 1
    /\ cat = 1
    /\ ki = 0
    /\ capital_cat = ZeroBudgets
    /\ allocation_per_asset = RZero
    /\ hi = 1
    /\ portfolio_history = EmptyFrame
    /\ total_history = EmptySeries
    /\ calls = <<>>

\* one iteration of the loop over the months
DcaMonth ==
    /\ dca.pc = "loop"
    /\ dca.m \in LoopMonths(dca.months)
    /\ LET cost == dca.current_cost + dca.monthly_amount
           fv   == GrowStep(dca.current_fv, dca.monthly_amount, dca.yield)
       IN  dca' = [dca EXCEPT
                      !.current_cost = cost,
                      !.current_fv = fv,
                      !.data = IF dca.m % MonthsPerYear = 0
                               THEN Append(@, DcaPoint(dca.m, cost, fv, dca.yield))
                               ELSE @,
                      !.m = @ + 1]
    /\ UNCHANGED <<scenarioVars, buildVars, pc, fill, div>>

\* return pd.DataFrame(data)
DcaReturn ==
    /\ dca.pc = "loop"
    /\ dca.m \notin LoopMonths(dca.months)
    /\ dca' = [dca EXCEPT !.result = dca.data, !.pc = "done"]
    /\ UNCHANGED <<scenarioVars, buildVars, pc, fill, div>>

NextDCA == DcaMonth \/ DcaReturn

SpecDCA == InitDCA /\ [][NextDCA]_vars


(***************************************************************************)
(* Claims about calculate_dca_projection (SpecDCA).                        *)
(***************************************************************************)
DcaDone == dca.pc = "done"

\* C5: the result has exactly `years` points, point i (from 1) is year i and
\* its cumulative cost is monthly_amount x 12 x i
C5_ExactlyYearsPoints ==
    DcaDone =>
        /\ Len(dca.result) = dca.years
        /\ \A i \in 1..Len(dca.result) :
              /\ dca.result[i].Year = i
              /\ dca.result[i].TotalCost = dca.monthly_amount * 12 * i

\* C5 witness: a finished projection over two years or more
C5_Witness ==
    /\ DcaDone
    /\ dca.years >= 2
    /\ dca.monthly_amount > 0
    /\ Len(dca.result) = dca.years

\* the asset values of the result grow strictly from point to point
AssetStrictlyIncreasing ==
    \A i, j \in 1..Len(dca.result) :
        i < j => VLess(dca.result[i].AssetValue, dca.result[j].AssetValue)

\* C6 as stated: the asset value is strictly increasing whenever
\* monthly_amount > 0, for every yield
C6_IncreasingForEveryYield ==
    (DcaDone /\ dca.monthly_amount > 0) => AssetStrictlyIncreasing

\* C6 amended: the asset value is strictly increasing whenever
\* monthly_amount > 0 and the monthly return is zero or positive
C6_IncreasingForNonNegativeReturn ==
    (DcaDone /\ dca.monthly_amount > 0 /\ MonthlyReturnNum(dca.yield) >= 0)
        => AssetStrictlyIncreasing

\* C6 witness: finished projections of two years or more with a positive
\* amount, one at a monthly return of exactly zero
C6_Witness ==
    /\ DcaDone
    /\ dca.monthly_amount > 0
    /\ MonthlyReturnNum(dca.yield) = 0
    /\ Len(dca.result) >= 2
    /\ VLess(dca.result[1].AssetValue, dca.result[2].AssetValue)

\* v is the value of n months of contribution-then-growth from 0: the sum
\* of M x g^j for j in 1..n, g = 1 + (y/100 + 0.03)/12 = p / 1200, that is
\* v x (g - 1) = M x g x (g^n - 1), or v = M x n when g = 1
IsAnnuityDue(v, n, amount, y) ==
    LET p == 1200 + y + 3
        one == ZInt(1)
    IN  /\ v.exp = n
        /\ IF p = 1200
           THEN VEq(v, [num |-> ZInt(amount * n), exp |-> 0])
           ELSE ZMul(v.num, p - 1200) =
                   ZMul(ZMul(ZSub(ZTimesPow(one, p, n), ZTimesPow(one, 1200, n)),
                             amount), p)

\* C7: each month is contribution then growth from value_0 = 0, at the
\* monthly return (yield/100 + 0.03)/12; each point's passive income is its
\* asset value x yield/100; at a monthly return of exactly 0 the final asset
\* value is monthly_amount x years x 12
C7_ContributionThenGrowth ==
    /\ dca.pc \in {"loop", "done"} =>
          IsAnnuityDue(dca.current_fv, dca.m - 1, dca.monthly_amount, dca.yield)
    /\ dca.pc = "done" =>
          /\ \A i \in 1..Len(dca.result) :
                /\ IsAnnuityDue(dca.result[i].AssetValue, 12 * i,
                                dca.monthly_amount, dca.yield)
                /\ dca.result[i].PassiveIncome =
                      [value |-> dca.result[i].AssetValue,
                       times |-> dca.yield, per |-> 100]
          /\ (dca.yield + 3 = 0 /\ dca.years > 0) =>
                VEq(dca.result[dca.years].AssetValue,
                    [num |-> ZInt(dca.monthly_amount * dca.years * 12), exp |-> 0])

\* C7 witness: a finished projection with a positive return and one with a
\* return of exactly zero would both do; this is the compounding one
C7_Witness ==
    /\ DcaDone
    /\ dca.monthly_amount > 0
    /\ dca.yield = 5
    /\ Len(dca.result) >= 2


(***************************************************************************)
(* analyze_fill_dividend.  Dates are day numbers; history is a sequence of *)
(* bars [date, Close, High] in increasing date order, dividends a sequence *)
(* of [date, amount] in increasing date order.                             *)
(***************************************************************************)
\* timedelta(days=730)
FillWindowDays == 730

MaxBars == 5
MaxEvents == 2

\* pd.Timestamp.now() of the runs
Todays == {810}
\* the trading days of the price history, oldest first
BarDate(i) == 800 + 2 * i
BarPrices == {1, 2}
\* a bar's High is never below its Close
Bars == {b \in [Close : BarPrices, High : BarPrices] : b.High >= b.Close}
\* ex-dates: one before the window, then before, on and between the bars
ExDates == {50, 801, 804, 805, 809}
DividendAmounts == {1, 2}

Histories ==
    UNION {{[i \in 1..n |-> [date |-> BarDate(i), Close |-> f[i].Close, High |-> f[i].High]] :
               f \in [1..n -> Bars]} : n \in 0..MaxBars}

RECURSIVE SortedDates(_)
\* the dates of a finite set, in increasing order
SortedDates(S) ==
    IF S = {} THEN <<>>
    ELSE LET lo == CHOOSE x \in S : \A y \in S : x <= y
         IN  <<lo>> \o SortedDates(S \ {lo})

DividendSeries ==
    {[i \in 1..Len(SortedDates(S)) |-> [date |-> SortedDates(S)[i], amount |-> a]] :
        S \in {T \in SUBSET ExDates : Cardinality(T) <= MaxEvents},
        a \in DividendAmounts}

\* recent_dividends = dividends[dividends.index >= cutoff_date]
RecentDividends(dividends, now) ==
    SelectSeq(dividends, LAMBDA e : e.date >= now - FillWindowDays)

\* history.index.searchsorted(date): the 0-based position of the first bar at
\* or after the date, len(history) when there is none
SearchSorted(history, date) ==
    Cardinality({i \in 1..Len(history) : history[i].date < date})

\* pre_close for the event at 0-based position idx
PreClose(history, idx, amount) ==
    IF idx > 0 THEN history[idx].Close ELSE history[idx + 1].Close + amount

\* mutant: the High has to exceed pre_close
ReachesStrictly(price, pre_close) == price > pre_close

\* the comparison of the scan: the day's High reaches pre_close
Reaches(price, pre_close) == price >= pre_close

RECURSIVE ScanFrom(_, _, _, _)
\* the loop over enumerate(future_prices): the first i with a High that
\* reaches pre_close, -1 when the loop ends without a break
ScanFrom(history, idx, pre_close, i) ==
    IF idx + i >= Len(history) THEN -1
    ELSE IF Reaches(history[idx + i + 1].High, pre_close) THEN i
    ELSE ScanFrom(history, idx, pre_close, i + 1)

\* future_prices = history.iloc[ex_date_idx:]['High'], scanned from its start
DaysToFill(history, idx, pre_close) == ScanFrom(history, idx, pre_close, 0)

\* 'total_count' of the result
TotalCount(recent) == Len(recent)

\* the dict analyze_fill_dividend returns; avg_days is a rational
FillResult(filled_count, total_count, total_days) ==
    [filled_count |-> filled_count,
     total_count |-> total_count,
     avg_days |-> IF filled_count > 0 THEN Rat(total_days, filled_count) ELSE RZero]

InitFill ==
    /\ \E h \in Histories, d \in DividendSeries, bad \in BOOLEAN, t \in Todays :
          fill = [pc |-> "start", history |-> h, dividends |-> d, now |-> t,
                  lookup_raises |-> bad, recent |-> <<>>, k |-> 1,
                  filled_count |-> 0, total_days |-> 0,
                  result |-> FillResult(0, 0, 0)]
    /\ dca = DcaIdle
    /\ div = DivIdle
    /\ pc = "idle"
    /\ total_capital = 0
    /\ monthly_income_goal = 0
    /\ user_weights = ScenarioWeights(2)
    /\ custom_allocations = <<>>
    /\ market = [down |-> {}, nohist |-> {}]
    /\ fx = [raises |-> TRUE, last_price |-> 0, hist_close |-> 0]
    /\ scn = 1
    /\ ports = <<>>
    /\ scenarios = [k \in {} |-> <<>>]
    /\ raised = ""
    /\ weights = ScenarioWeights(2)
    /\ customs = <<>>
    /\ required_yield = RZero
    /\ usd_twd = RZero
    /\ remaining_capital = RZero
    /\ portfolio = <<>>
    /\ ci = 1
    /\ cat = 1
    /\ ki = 0
    /\ capital_cat = ZeroBudgets
    /\ allocation_per_asset = RZero
    /\ hi = 1
    /\ portfolio_history = EmptyFrame
    /\ total_history = EmptySeries
    /\ calls = <<>>

\* the two early returns and the filter of the last two years
FillBegin ==
    /\ fill.pc = "start"
    /\ LET recent == RecentDividends(fill.dividends, fill.now)
       IN  IF fill.history = <<>> \/ fill.dividends = <<>> \/ recent = <<>>
           THEN fill' = [fill EXCEPT !.result = FillResult(0, 0, 0), !.pc = "done"]
           ELSE fill' = [fill EXCEPT !.recent = recent, !.k = 1, !.pc = "loop"]
    /\ UNCHANGED <<scenarioVars, buildVars, pc, dca, div>>

\* one iteration of the loop over recent_dividends: the try block, whose
\* exceptions and whose ex-date past the end of history both `continue`
FillEvent ==
    /\ fill.pc = "loop"
    /\ fill.k <= Len(fill.recent)
    /\ LET e == fill.recent[fill.k]
           ex_date_idx == SearchSorted(fill.history, e.date)
       IN  IF fill.lookup_raises \/ ex_date_idx >= Len(fill.history)
           THEN fill' = [fill EXCEPT !.k = @ + 1]
           ELSE LET pre_close == PreClose(fill.history, ex_date_idx, e.amount)
                    days_to_fill == DaysToFill(fill.history, ex_date_idx, pre_close)
                IN  IF days_to_fill >= 0
                    THEN fill' = [fill EXCEPT !.filled_count = @ + 1,
                                              !.total_days = @ + days_to_fill,
                                              !.k = @ + 1]
                    ELSE fill' = [fill EXCEPT !.k = @ + 1]
    /\ UNCHANGED <<scenarioVars, buildVars, pc, dca, div>>

\* avg_days and the returned dict
FillReturn ==
    /\ fill.pc = "loop"
    /\ fill.k > Len(fill.recent)
    /\ fill' = [fill EXCEPT
                   !.result = FillResult(fill.filled_count, TotalCount(fill.recent),
                                         fill.total_days),
                   !.pc = "done"]
    /\ UNCHANGED <<scenarioVars, buildVars, pc, dca, div>>

NextFill == FillBegin \/ FillEvent \/ FillReturn

SpecFill == InitFill /\ [][NextFill]_vars


(***************************************************************************)
(* Claims about analyze_fill_dividend (SpecFill).                          *)
(***************************************************************************)
FillDone == fill.pc = "done"

\* the dividend events of the trailing 730 days, as positions in dividends
RecentEvents ==
    {k \in 1..Len(fill.dividends) : fill.dividends[k].date >= fill.now - 730}

\* the bars at or after event k's ex-date
BarsFrom(k) ==
    {i \in 1..Len(fill.history) : fill.history[i].date >= fill.dividends[k].date}

\* event k's ex-date index can be located: its lookup does not raise and a
\* bar at or after its ex-date exists
Locatable(k) == ~fill.lookup_raises /\ BarsFrom(k) # {}

\* the bar of event k's ex-date index: the first trading day at or after it
ExBar(k) == CHOOSE i \in BarsFrom(k) : \A j \in BarsFrom(k) : i <= j

\* preClose of event k: the Close of the bar before the ex-date bar, or the
\* ex-date Close plus the dividend when the ex-date bar is the first bar
PreCloseOf(k) ==
    IF ExBar(k) > 1
    THEN fill.history[ExBar(k) - 1].Close
    ELSE fill.history[ExBar(k)].Close + fill.dividends[k].amount

\* the day offsets from the ex-date bar at which the High is at least preClose
FillOffsets(k) ==
    {d \in 0..(Len(fill.history) - ExBar(k)) :
        fill.history[ExBar(k) + d].High >= PreCloseOf(k)}

FilledEvents == {k \in RecentEvents : Locatable(k) /\ FillOffsets(k) # {}}

FirstOffset(k) == CHOOSE d \in FillOffsets(k) : \A e \in FillOffsets(k) : d <= e

\* C8: an event is filled at the first offset d >= 0 from its ex-date bar
\* whose High >= preClose; filled_count counts these events and avg_days is
\* the mean of their offsets, 0 when there is none.  No High reaching
\* preClose gives 0 and 0; one event first reaching it on day+3 gives 1 and 3
C8_FilledAtFirstReach ==
    FillDone =>
        /\ fill.result.filled_count = Cardinality(FilledEvents)
        /\ fill.result.avg_days =
              IF FilledEvents = {} THEN RZero
              ELSE RDiv(RSumOver(FilledEvents,
                                 [k \in FilledEvents |-> RInt(FirstOffset(k))]),
                        RInt(Cardinality(FilledEvents)))
        /\ (\A k \in RecentEvents : Locatable(k) => FillOffsets(k) = {}) =>
              /\ fill.result.filled_count = 0
              /\ fill.result.avg_days = RZero
        /\ (\E k \in RecentEvents :
               /\ RecentEvents = {k}
               /\ Locatable(k)
               /\ FillOffsets(k) # {}
               /\ FirstOffset(k) = 3) =>
              /\ fill.result.filled_count = 1
              /\ fill.result.avg_days = RInt(3)

\* C8 witness: a single recent event, measured against the previous Close,
\* first filled on day+3
C8_Witness ==
    /\ FillDone
    /\ \E k \in RecentEvents :
          /\ RecentEvents = {k}
          /\ Locatable(k)
          /\ ExBar(k) > 1
          /\ FillOffsets(k) # {}
          /\ FirstOffset(k) = 3
    /\ fill.result.filled_count = 1
    /\ fill.result.avg_days = RInt(3)

\* C9: total_count counts only the recent events whose ex-date index could
\* be located: not those past the end of history, not those whose
\* computation raised
C9_TotalCountsLocatableOnly ==
    FillDone =>
        fill.result.total_count = Cardinality({k \in RecentEvents : Locatable(k)})


(***************************************************************************)
(* DataFetcher.get_dividend_info.                                          *)
(***************************************************************************)
\* the names data_fetcher.py can resolve at module level: its imports
FetcherImportedNames == {"requests", "BeautifulSoup", "re", "logging", "yf", "pd"}
FetcherNameDefined(name) == name \in FetcherImportedNames

\* Python's None, next to the non-negative numbers info.get(...) answers
None == 0 - 1

\* bool(x) of None or a number
Truthy(x) == x # None /\ x # 0

\* a or b
PyOr(a, b) == IF Truthy(a) THEN a ELSE b

\* timedelta(days=365)
YearDays == 365

\* pd.Timestamp.now, as a day number
DivTodays == {800}

\* ticker.info: the keys get_dividend_info reads
InfoCases ==
    [dividendYield : {None, 0, 4},
     trailingAnnualDividendRate : {None, 0, 2},
     currentPrice : {None, 50},
     regularMarketPreviousClose : {None, 40},
     exDividendDate : {None, 790}]

\* ticker.dividends: events before, on and after the day one year ago
DividendEvents ==
    { [date |-> 300, amount |-> 1],
      [date |-> 435, amount |-> 2],
      [date |-> 700, amount |-> 1] }
DividendHistories == SUBSET DividendEvents

\* ticker.fast_info.last_price: a price, 0 for none, or an exception
FastInfoCases ==
    { [raises |-> FALSE, last_price |-> 45],
      [raises |-> FALSE, last_price |-> 0],
      [raises |-> TRUE,  last_price |-> 0] }

\* what the dividend page of tw.stock.yahoo.com gives the scraper
ScrapeCases == {"date", "none", "raises"}

\* last_year_divs.sum() for the events on or after one_year_ago
TotalDiv(history, now) ==
    LET last_year_divs == {e \in history : e.date >= now - YearDays}
    IN  RSumOver(last_year_divs, [e \in last_year_divs |-> RInt(e.amount)])

\* the inner try of get_dividend_info: the yield from the dividend history of
\* the last 365 days; any exception in it leaves the yield as it was
FallbackYield(d) ==
    IF d.dividends_raise THEN d.result.yield
    ELSE IF d.dividends = {} THEN d.result.yield
    ELSE IF ~FetcherNameDefined("timedelta") THEN d.result.yield
    ELSE LET total_div == TotalDiv(d.dividends, d.now)
             known == PyOr(d.info.currentPrice, d.info.regularMarketPreviousClose)
         IN  IF ~Truthy(known) /\ d.fast.raises THEN d.result.yield
             ELSE LET current_price == PyOr(known, d.fast.last_price)
                  IN  IF Truthy(current_price) /\ current_price > 0
                      THEN RDiv(total_div, RInt(current_price))
                      ELSE d.result.yield

\* result['yield'] after the yield block
ResolveYield(d) ==
    LET div_yield == d.info.dividendYield
        rate  == d.info.trailingAnnualDividendRate
        price == PyOr(d.info.currentPrice, d.info.regularMarketPreviousClose)
    IN  IF div_yield # None THEN Rat(div_yield, 100)
        ELSE IF Truthy(rate) /\ Truthy(price) THEN Rat(rate, price)
        ELSE FallbackYield(d)

InitDiv ==
    /\ \E i \in InfoCases, h \in DividendHistories, f \in FastInfoCases,
          ir \in BOOLEAN, dr \in BOOLEAN, tw \in BOOLEAN, sc \in ScrapeCases,
          t \in DivTodays :
          div = [pc |-> "start", info |-> i, info_raises |-> ir,
                 dividends |-> h, dividends_raise |-> dr, fast |-> f,
                 is_tw |-> tw, scrape |-> sc, now |-> t,
                 result |-> [date |-> "N/A", yield |-> RZero],
                 returned |-> [date |-> "N/A", yield |-> RZero]]
    /\ dca = DcaIdle
    /\ fill = FillIdle
    /\ pc = "idle"
    /\ total_capital = 0
    /\ monthly_income_goal = 0
    /\ user_weights = ScenarioWeights(2)
    /\ custom_allocations = <<>>
    /\ market = [down |-> {}, nohist |-> {}]
    /\ fx = [raises |-> TRUE, last_price |-> 0, hist_close |-> 0]
    /\ scn = 1
    /\ ports = <<>>
    /\ scenarios = [k \in {} |-> <<>>]
    /\ raised = ""
    /\ weights = ScenarioWeights(2)
    /\ customs = <<>>
    /\ required_yield = RZero
    /\ usd_twd = RZero
    /\ remaining_capital = RZero
    /\ portfolio = <<>>
    /\ ci = 1
    /\ cat = 1
    /\ ki = 0
    /\ capital_cat = ZeroBudgets
    /\ allocation_per_asset = RZero
    /\ hi = 1
    /\ portfolio_history = EmptyFrame
    /\ total_history = EmptySeries
    /\ calls = <<>>

\* yf.Ticker(symbol).info: an exception goes to the outer except, past the
\* yield and the date blocks
DivInfo ==
    /\ div.pc = "start"
    /\ div' = [div EXCEPT !.pc = IF div.info_raises THEN "scrape" ELSE "yield"]
    /\ UNCHANGED <<scenarioVars, buildVars, pc, dca, fill>>

\* the yield block
DivYield ==
    /\ div.pc = "yield"
    /\ div' = [div EXCEPT !.result.yield = ResolveYield(div), !.pc = "date"]
    /\ UNCHANGED <<scenarioVars, buildVars, pc, dca, fill>>

\* the ex-dividend date of info, formatted
DivDate ==
    /\ div.pc = "date"
    /\ div' = [div EXCEPT
                  !.result.date = IF Truthy(div.info.exDividendDate) THEN "info" ELSE @,
                  !.pc = "scrape"]
    /\ UNCHANGED <<scenarioVars, buildVars, pc, dca, fill>>

\* the scrape of the date for a .TW/.TWO symbol that has none yet
DivScrape ==
    /\ div.pc = "scrape"
    /\ div' = [div EXCEPT
                  !.result.date = IF @ = "N/A" /\ div.is_tw /\ div.scrape = "date"
                                  THEN "scraped" ELSE @,
                  !.pc = "return"]
    /\ UNCHANGED <<scenarioVars, buildVars, pc, dca, fill>>

\* return result
DivReturn ==
    /\ div.pc = "return"
    /\ div' = [div EXCEPT !.returned = div.result, !.pc = "done"]
    /\ UNCHANGED <<scenarioVars, buildVars, pc, dca, fill>>

NextDiv == DivInfo \/ DivYield \/ DivDate \/ DivScrape \/ DivReturn

SpecDiv == InitDiv /\ [][NextDiv]_vars


(***************************************************************************)
(* Claims about get_dividend_info (SpecDiv).                               *)
(***************************************************************************)
DivDone == div.pc = "done"

\* the quote source answered every request of the call
SourcesAnswered ==
    ~div.info_raises /\ ~div.dividends_raise /\ ~div.fast.raises

\* the dividend events of the trailing 365 days
TrailingEvents == {e \in div.dividends : e.date >= div.now - 365}

\* the yield the claim resolves: the published yield (a percentage, as a
\* fraction); else rate / price; else the trailing events' sum / price when
\* there are such events and a positive price is known; else 0
ClaimedYield ==
    LET published == div.info.dividendYield
        rate   == div.info.trailingAnnualDividendRate
        quoted == PyOr(div.info.currentPrice, div.info.regularMarketPreviousClose)
        price  == PyOr(quoted, div.fast.last_price)
    IN  IF published # None THEN Rat(published, 100)
        ELSE IF Truthy(rate) /\ Truthy(quoted) THEN Rat(rate, quoted)
        ELSE IF TrailingEvents # {} /\ Truthy(price)
        THEN RDiv(RSumOver(TrailingEvents,
                           [e \in TrailingEvents |-> RInt(e.amount)]),
                  RInt(price))
        ELSE RZero

\* C12: when the quote source answers, get_dividend_info returns the yield
\* resolved in the order published yield, trailing rate / price, sum of the
\* dividend events of the trailing 365 days / price, 0; in particular with no
\* published yield and no trailing rate but trailing events and a positive
\* price, the yield is that sum over the price
C12_YieldResolution ==
    (DivDone /\ SourcesAnswered) => div.returned.yield = ClaimedYield

=============================================================================
